---- MODULE Spec2Model ----
(***************************************************************************)
(* Model of the EstimateOne ingestion service (modules/estimate.py).       *)
(*                                                                         *)
(* Strings that the code compares or searches (project ids) are sequences  *)
(* of digits; a Python dict is a function whose DOMAIN is the set of keys  *)
(* present; an optional value (x or None) is the set {x} or {}.            *)
(* The portal page and the database are the environment: every answer they *)
(* give is drawn with \E at the step that consumes it.                     *)
(***************************************************************************)
EXTENDS Integers, Sequences, FiniteSets, TLC

\* ---------------------------------------------------------------- bounds
MaxJobs == 2        \* job runs submitted to the process
MaxIds == 2         \* project ids in one /scrape-project request
MaxRows == 1        \* rows rendered on one listing page
MaxTicks == 3       \* clock advances
MaxLen == 3         \* characters of a generated budget string
MaxRequests == 4    \* requests accepted by the endpoints
MaxOps == 2         \* browser operations of one job in the pool
MaxLogins == 3      \* concurrent POST /login requests of one user

\* ------------------------------------------------------ program constants
session_duration == 1800
max_workers == 3            \* threads of thread_pool
url_timeout == 20000        \* ms, wait for the URL to leave the login path
rows_timeout == 10000       \* ms, wait for the tender rows after it
overlay_timeout == 300      \* ms, wait for the modal overlay to hide

\* Clock advances, in seconds: they reach 1799, 1800 and 1801 elapsed.
TickSteps == {1, 1799}

\* --------------------------------------------------------------- helpers
\* Requests to the two scrape endpoints, in their order of arrival.
PoolRequests == 1..MaxRequests

\* POST /login requests of one user, in their order of arrival.
LoginRequests == 1..MaxLogins

None == {}
Some(x) == {x}
The(o) == CHOOSE x \in o : TRUE

EmptyDict == [k \in {} |-> 0]
Truthy(d) == DOMAIN d # {}
Get(d, k) == IF k \in DOMAIN d THEN Some(d[k]) ELSE None
Update(d, e) == e @@ d

\* Project id strings of the portal, "" included.
IdStrings == {<<>>, <<1>>, <<1, 2>>}
\* Project ids the tenders table is tracked for: rows without a project id,
\* or with an empty one, are inserted but not counted.
StoreKeys == {Some(<<1>>), Some(<<1, 2>>)}

IdOpt == {None} \cup {Some(s) : s \in IdStrings}

\* Python "a in b" on strings.
IsSubstring(a, b) ==
    \E k \in 0..(Len(b) - Len(a)) : SubSeq(b, k + 1, k + Len(a)) = a

Op(name, id, ok) == [op |-> name, id |-> id, ok |-> ok]

VARIABLES
    clock,          \* time.time(), in seconds
    ticks,          \* number of clock advances so far
    session_cache,  \* scraper.session_cache: {} or {login_time}
    lastGet,        \* result of the last stand-alone get_cached_session call
    everValid,      \* some stand-alone get_cached_session call returned True
    store,          \* tenders table: number of rows per project id
    store0,         \* the tenders table when the current job started
    prevLogin,      \* login times cached by earlier jobs of this process
    jobs,           \* job runs submitted so far
    mode,           \* "none", "listing" or "ids"
    pc,             \* position of the job
    onLogin,        \* "/auth/login" in page.url
    project_ids,    \* the request's project_ids
    project_rows,   \* number of rows collected from the listing
    dupRows,        \* rows seen so far whose id was in the table at job start
    i,              \* loop index, 1-based
    project_data,   \* the record under construction
    opened,         \* project whose detail popup the search opened
    matched,        \* the current search showed a suggestion or a result
                    \* row whose id contains the id searched for
    scan,           \* result row the search reads next, 0 outside the rows
    rows_inserted,  \* listing mode counter
    preview,        \* listing mode sample record
    results,        \* id mode summary
    clean,          \* no extraction or insert failed in this job so far
    ops,            \* browser and database operations of the current phase
                    \* of the job: authentication, or one candidate
    insertCalls,    \* calls of insert_to_supabase in this job
    raised,         \* exception leaving the job function, "" if none
    browserOpen,    \* the job's browser is open
    response,       \* HTTP response of the last finished request
    budget_pc,      \* position of the dashboard trends loop body
    budget,         \* str(budget) of the project the loop is at
    budget_value,   \* the value extracted from it
    range_category, \* the budget range counted for the project
    login_pc,       \* position of one credential login
    signals,        \* when the portal shows each sign of the login's end
    login_result,   \* what login_to_estimate_one_fast returned
    phase,          \* per request: where it is between arrival and answer
    checks,         \* per request: what its checks met, None before them
    reject_code,    \* per request: status of the HTTPException its checks
                    \* raised, 0 if none
    pool_queue,     \* work items of thread_pool not yet taken by a worker
    ops_done,       \* per request: browser operations its job has finished
    scraper_of,     \* per request: the scraper, browser, context and page
                    \* its job created, None before
    users,          \* per scraper and page: the jobs that read or wrote it
    in_flight,      \* per request: browser operations begun and not ended
    browser_by,     \* threads that have run a browser operation
    store_users,    \* jobs that have written to the tenders table
    auth_phase,     \* per POST /login request of one user: where it is
    user_credentials,   \* 'estimate_one' rows the table holds for the user
    popup_pc,       \* position of the handling of one detail popup
    popup_env,      \* what the popup holds and does while it is read
    popup_ops,      \* page operations on the popup so far
    popup_details,  \* the dict extract_project_details_fast returned
    popup_result    \* what close_popup_fast returned, None before it returns

\* Variables of the dashboard.
budgetVars == <<budget_pc, budget, budget_value, range_category>>

\* Variables of one credential login looked at on its own.
loginVars == <<login_pc, signals, login_result>>

\* Variables of the requests in the worker pool.
poolVars == <<phase, checks, reject_code, pool_queue, ops_done, scraper_of, users, in_flight,
              browser_by, store_users>>

\* Variables of the POST /login requests of one user.
credVars == <<auth_phase, user_credentials>>

\* Variables of one detail popup looked at on its own.
popupVars == <<popup_pc, popup_env, popup_ops, popup_details, popup_result>>

\* Variables outside the scraping service's session cache and job.
sideVars == <<budgetVars, loginVars, poolVars, credVars, popupVars>>

\* Variables of the session cache and of the job.
serviceVars == <<clock, ticks, session_cache, lastGet, everValid, store,
                 store0, prevLogin, jobs, mode, pc, onLogin, project_ids,
                 project_rows, dupRows, i, project_data, opened, matched,
                 scan, rows_inserted, preview, results, clean, ops,
                 insertCalls, raised, browserOpen, response>>

vars == <<serviceVars, sideVars>>

jobVars == <<store, store0, prevLogin, jobs, mode, pc, onLogin, project_ids,
             project_rows, dupRows, i, project_data, opened, matched, scan,
             rows_inserted, preview, results, clean, ops, insertCalls, raised,
             browserOpen, response, sideVars>>

NoResults == [processed |-> 0, failed |-> 0, details |-> <<>>,
              sample_project |-> None]
NoResponse == [code |-> 0, status |-> "", data |-> EmptyDict]

ServiceInit ==
    /\ clock = 0
    /\ ticks = 0
    /\ session_cache = None
    /\ lastGet = "none"
    /\ everValid = FALSE
    /\ store = [k \in StoreKeys |-> 0]
    /\ store0 = [k \in StoreKeys |-> 0]
    /\ prevLogin = {}
    /\ jobs = 0
    /\ mode = "none"
    /\ pc = "idle"
    /\ onLogin = FALSE
    /\ project_ids = <<>>
    /\ project_rows = 0
    /\ dupRows = 0
    /\ i = 0
    /\ project_data = EmptyDict
    /\ opened = None
    /\ matched = FALSE
    /\ scan = 0
    /\ rows_inserted = 0
    /\ preview = None
    /\ results = NoResults
    /\ clean = TRUE
    /\ ops = <<>>
    /\ insertCalls = 0
    /\ raised = ""
    /\ browserOpen = FALSE
    /\ response = NoResponse

\* No dashboard request is being served.
BudgetIdle ==
    /\ budget_pc = "idle"
    /\ budget = <<>>
    /\ budget_value = 0
    /\ range_category = ""

\* No credential login is looked at on its own.
LoginIdle ==
    /\ login_pc = "idle"
    /\ signals = [url |-> None, marker |-> None, error |-> None]
    /\ login_result = FALSE

\* No request has arrived at the worker pool.
PoolInit ==
    /\ phase = [r \in PoolRequests |-> "new"]
    /\ checks = [r \in PoolRequests |-> None]
    /\ reject_code = [r \in PoolRequests |-> 0]
    /\ pool_queue = <<>>
    /\ ops_done = [r \in PoolRequests |-> 0]
    /\ scraper_of = [r \in PoolRequests |-> None]
    /\ users = [s \in PoolRequests |-> {}]
    /\ in_flight = [r \in PoolRequests |-> 0]
    /\ browser_by = {}
    /\ store_users = {}

\* No POST /login request has arrived; the user has no stored credentials.
CredInit ==
    /\ auth_phase = [r \in LoginRequests |-> "new"]
    /\ user_credentials = 0

\* No detail popup is looked at on its own.
PopupIdle ==
    /\ popup_pc = "idle"
    /\ popup_env = EmptyDict
    /\ popup_ops = <<>>
    /\ popup_details = EmptyDict
    /\ popup_result = None

Init ==
    /\ ServiceInit
    /\ BudgetIdle
    /\ LoginIdle
    /\ PoolInit
    /\ CredInit
    /\ PopupIdle

\* ------------------------------------------------------- session cache
\* get_cached_session with the boundary second counted as valid.
get_cached_session_inclusive(cache, now) ==
    /\ cache # None
    /\ now - The(cache) <= session_duration

\* get_cached_session: a login time is cached and less than
\* session_duration seconds have passed since.
get_cached_session(cache, now) ==
    /\ cache # None
    /\ now - The(cache) < session_duration

\* cache_session: session_cache['login_time'] = time.time()
cache_session(now) == Some(now)

\* time.time() moves forward.
Tick ==
    /\ ticks < MaxTicks
    /\ pc = "idle"
    /\ \E d \in TickSteps : clock' = clock + d
    /\ ticks' = ticks + 1
    /\ UNCHANGED <<session_cache, lastGet, everValid>>
    /\ UNCHANGED jobVars

\* A scraper object driven directly: cache_session() ...
CacheSession ==
    /\ pc = "idle"
    /\ session_cache' = cache_session(clock)
    /\ UNCHANGED <<clock, ticks, lastGet, everValid>>
    /\ UNCHANGED jobVars

\* ... and get_cached_session().
GetCachedSession ==
    /\ pc = "idle"
    /\ lastGet' = IF get_cached_session(session_cache, clock)
                  THEN "valid" ELSE "invalid"
    /\ everValid' = (everValid \/ get_cached_session(session_cache, clock))
    /\ UNCHANGED <<clock, ticks, session_cache>>
    /\ UNCHANGED jobVars

SessionNext == Tick \/ CacheSession \/ GetCachedSession

SessionSpec == Init /\ [][SessionNext]_vars

\* ------------------------------------------------------------ Persister
\* _convert_to_int: int(str(value).strip()) of a digit string, None of None.
RECURSIVE DigitsToInt(_)
DigitsToInt(s) ==
    IF Len(s) = 0 THEN 0
    ELSE 10 * DigitsToInt(SubSeq(s, 1, Len(s) - 1)) + s[Len(s)]

convert_to_int(value) ==
    IF value = None THEN None
    ELSE IF Len(The(value)) = 0 THEN None       \* int("") is a ValueError
    ELSE Some(DigitsToInt(The(value)))

\* Columns filled by a plain project_data.get(key).
ColumnKey == [project_name |-> "Project Name",
              project_id |-> "Project ID",
              project_address |-> "Project Address",
              max_budget |-> "Max Budget",
              distance |-> "Distance",
              category |-> "Category",
              builder |-> "Builder",
              quote_due_builder |-> "Quote Due (Builder)",
              project_due_date |-> "Project Due Date",
              interest_level |-> "Interest Level",
              submission_deadline |-> "Submission Deadline",
              overall_budget |-> "Overall Budget",
              builder_descriptions |-> "Builder Descriptions",
              row_number |-> "Row Number"]

\* The row insert_to_supabase builds: the mapping, then None values removed.
supabase_data(pd, now) ==
    LET present == {c \in DOMAIN ColumnKey : ColumnKey[c] \in DOMAIN pd}
        plain == [c \in present |-> pd[ColumnKey[c]]]
        trades == convert_to_int(Get(pd, "Number of Trades"))
    IN  plain
        @@ ("url" :> (IF "source_url" \in DOMAIN pd
                      THEN pd["source_url"] ELSE ""))
        @@ ("scraped_at" :> now)
        @@ ("has_documents" :> (Get(pd, "Has Documents") = Some("Yes")))
        @@ (IF trades # None THEN "number_of_trades" :> The(trades)
            ELSE EmptyDict)

\* Answers of the database to an insert: rows returned, no data, exception.
InsertAnswers == {"ok", "empty", "error"}

\* insert_to_supabase taking every answer that is not an exception as success.
insert_to_supabase_no_exception(answer) == answer # "error"

\* insert_to_supabase returns True only when the insert returned data.
insert_to_supabase(answer) == answer = "ok"

\* The tenders table after the insert call.
StoreAfter(st, pd, now, answer) ==
    LET key == Get(supabase_data(pd, now), "project_id")
    IN  IF answer = "ok" /\ key \in DOMAIN st
        THEN [st EXCEPT ![key] = @ + 1]
        ELSE st

\* Number of rows the table holds for an optional project id.
Held(st, key) == IF key \in DOMAIN st THEN st[key] ELSE 0

\* ------------------------------------------------------ Session Manager
\* is_logged_in_ultra_fast without the URL check.
is_logged_in_markers_only(urlOnLogin, marker) == marker

\* is_logged_in_ultra_fast: the URL check, then the marker elements.
is_logged_in_ultra_fast(urlOnLogin, marker) ==
    IF ~urlOnLogin THEN TRUE ELSE marker

\* is_logged_in: a marker element within its timeout, else the URL check
\* (the job's URLs are estimateone.com URLs).
is_logged_in(urlOnLogin, marker) ==
    IF marker THEN TRUE ELSE ~urlOnLogin

\* What the portal does during one credential login.
LoginEnvs == [form : BOOLEAN,       \* goto, form wait, fill and click pass
              urlLeft : BOOLEAN,    \* the URL left the login path in 20 s
              dashboard : BOOLEAN,  \* project rows appeared in 10 s
              manual : BOOLEAN]     \* page.url is off the login path at last

login_to_estimate_one_fast(e) ==
    IF ~e.form THEN FALSE
    ELSE IF e.urlLeft THEN TRUE
    ELSE IF e.dashboard THEN TRUE
    ELSE e.manual

\* ------------------------------------------------------- List Enumerator
MaxResultRows == 2

\* One row of the search results page: its project id element, if any, and
\* whether it has a project link.
ResultRows == [id : IdOpt \ {Some(<<>>)}, link : BOOLEAN]

\* What the portal answers to the typed id, up to the result rows.
SearchEnvs ==
    {e \in [pre : BOOLEAN,          \* search field found, id typed, submitted
            auto : BOOLEAN,         \* the autocomplete dropdown appeared
            suggestion : IdOpt \ {Some(<<>>)},  \* its first suggested project
            clickOk : BOOLEAN,      \* clicking the suggestion passes
            tableShown : BOOLEAN] : \* result rows appeared in 5 s
        \* one representative per outcome of the unused answers
        /\ (~e.pre => ~e.auto)
        /\ (~e.auto => e.suggestion = None)
        /\ (e.suggestion = None => e.clickOk)
        /\ ((~e.pre \/ (e.auto /\ e.clickOk)) => ~e.tableShown)}

\* `project_id in row_project_id` for an optional id text.
IdMatches(project_id, shown) ==
    /\ shown # None
    /\ IsSubstring(project_id, The(shown))

\* search_project_by_id up to the result rows: "found" with the project
\* whose popup the click opened, "not_found", or "rows" when the result rows
\* are to be read.
search_project_by_id(e, project_id) ==
    LET notFound == [result |-> "not_found", opened |-> None]
        fromTable == IF e.tableShown
                     THEN [result |-> "rows", opened |-> None]
                     ELSE notFound
    IN  IF ~e.pre THEN notFound
        ELSE IF e.auto
             THEN IF e.suggestion # None
                  THEN IF e.clickOk
                       THEN [result |-> "found", opened |-> e.suggestion]
                       ELSE fromTable
                  ELSE notFound
             ELSE fromTable

\* search_project_by_id, one result row: the row is "skipped", or its link
\* is clicked and the search is "found", or the click raises and the search
\* is "not_found".
search_result_row(row, linkClickOk, project_id) ==
    IF IdMatches(project_id, row.id) /\ row.link
    THEN IF linkClickOk THEN "found" ELSE "not_found"
    ELSE "skipped"

\* ------------------------------------------------------ Detail Extractor
\* Results of extract_project_details_fast: nothing found, or some fields.
DetailChoices ==
    {EmptyDict,
     ("Project Name" :> "popup name") @@ ("Number of Trades" :> <<1, 2>>)
        @@ ("Overall Budget" :> "$1m - $2m")}

\* What the popup does while its details are read: whether a read raised,
\* and the fields collected up to then.
PopupEnvs ==
    {e \in [exc : BOOLEAN, details : DetailChoices] :
        \* one representative of the reads that raise: the first one
        e.exc => e.details = EmptyDict}

\* extract_project_details_fast: the fields collected, also when a read
\* raised (the handler returns what was collected so far).
extract_project_details_fast(e) == e.details

\* What one listing row does while it is processed.
RowEnvs ==
    {e \in [exc : {"none", "closed", "other"}, \* exception during extraction
            cut : 0..2,             \* fields read before the exception
            link : BOOLEAN,         \* the row has a project link
            linkQuery : BOOLEAN,    \* looking up the link passes
            click : BOOLEAN,        \* clicking the link passes
            escape : BOOLEAN,       \* pressing Escape in the handler passes
            details : DetailChoices] :
        /\ (e.exc # "other" => e.cut = 0)
        /\ (e.exc = "closed" => (e.link /\ e.linkQuery))
        /\ ((~e.linkQuery \/ ~e.link) => e.click)
        /\ (e.click => e.escape)
        /\ ((~e.linkQuery \/ ~e.link \/ ~e.click) => e.details = EmptyDict)}

\* extract_single_project_row
extract_single_project_row(rowId, e) ==
    LET name == IF e.link THEN "Project Name" :> "row name" ELSE EmptyDict
        id == IF rowId # None THEN "Project ID" :> The(rowId) ELSE EmptyDict
        docs == "Has Documents" :> "Yes"
    IN  IF e.exc = "none" THEN name @@ id @@ docs
        ELSE IF e.exc = "closed" THEN EmptyDict
        ELSE IF e.cut = 0 THEN EmptyDict
        ELSE IF e.cut = 1 THEN name
        ELSE name @@ id

\* ------------------------------------------------------------ exceptions
\* Exceptions that leave a job function: their Python type and the marker
\* phrases of the endpoint's handler that their lower-cased message contains.
ExcInfo ==
    [LoginFailed |-> [type |-> "RuntimeError", words |-> {"login failed"}],
     NoRows |-> [type |-> "RuntimeError", words |-> {}],
     Timeout |-> [type |-> "playwright.TimeoutError", words |-> {}],
     TargetClosed |-> [type |-> "playwright.Error", words |-> {}]]

\* scrape_estimate_one: the except chain after run_in_executor.
ListingErrorCode(kind) ==
    LET x == ExcInfo[kind]
    IN  IF x.type = "ValueError" THEN 400
        ELSE IF x.type = "ConnectionError" THEN 503
        ELSE IF x.type = "TimeoutError" THEN 408
        ELSE IF x.words \cap {"invalid credentials", "login failed"} # {}
             THEN 401
        ELSE IF x.words \cap {"page not found", "404"} # {} THEN 404
        ELSE IF x.words \cap {"access denied", "forbidden"} # {} THEN 403
        ELSE 500

\* scrape_projects_by_ids: every exception of the job becomes a 500.
IdsErrorCode(kind) == 500

\* scrape_projects_by_ids: the status of the summary.
IdsStatus(processed_count, failed_count) ==
    IF processed_count > 0 /\ failed_count = 0 THEN "success"
    ELSE IF processed_count > 0 /\ failed_count > 0 THEN "partial_success"
    ELSE "failed"

\* ------------------------------------------------------------- the jobs
Requests == UNION {[1..n -> IdStrings] : n \in 1..MaxIds}

\* Variables that no step of a job changes.
processVars == <<clock, ticks, lastGet, everValid, jobs, mode, project_ids,
                 store0, response, sideVars>>

Log(entries) == ops' = ops \o entries

\* Leave the job function with an exception: on to the finally block.
Raise(kind) ==
    /\ raised' = kind
    /\ pc' = "finally"

\* A request passed its checks and its job starts on a worker:
\* the scraper is constructed and the browser launched.
StartJob(m, ids) ==
    /\ pc \in {"idle", "done"}
    /\ jobs < MaxJobs
    /\ jobs' = jobs + 1
    /\ mode' = m
    /\ project_ids' = ids
    /\ project_rows' = 0
    /\ dupRows' = 0
    /\ i' = 0
    /\ project_data' = EmptyDict
    /\ opened' = None
    /\ matched' = FALSE
    /\ scan' = 0
    /\ rows_inserted' = 0
    /\ preview' = None
    /\ results' = NoResults
    /\ clean' = TRUE
    /\ ops' = <<>>
    /\ insertCalls' = 0
    /\ raised' = ""
    /\ store0' = store
    /\ session_cache' = None
    /\ onLogin' = FALSE
    /\ browserOpen' = TRUE
    /\ response' = NoResponse
    /\ pc' = "goto"
    /\ UNCHANGED <<clock, ticks, lastGet, everValid, store, prevLogin,
                   sideVars>>

\* POST /scrape-tenders
SubmitListing == StartJob("listing", <<>>)

\* POST /scrape-project
SubmitIds == \E ids \in Requests : StartJob("ids", ids)

\* page.goto(url): it raises, or lands on the login page or in the app.
Goto ==
    /\ pc = "goto"
    /\ \E nav \in {"raise", "login", "app"} :
        IF nav = "raise"
        THEN /\ Raise("Timeout")
             /\ UNCHANGED <<onLogin, ops>>
        ELSE /\ onLogin' = (nav = "login")
             /\ Log(<<Op("goto", None, nav = "app")>>)
             /\ pc' = "auth"
             /\ UNCHANGED raised
    /\ UNCHANGED <<processVars, matched, scan>>
    /\ UNCHANGED <<session_cache, store, prevLogin, project_rows, dupRows, i,
                   project_data, opened, rows_inserted, preview, results,
                   clean, insertCalls, browserOpen>>

\* _scrape_estimate_one_sync: the login check and the cached-session branch.
ListingAuth ==
    /\ pc = "auth"
    /\ mode = "listing"
    /\ \E marker \in BOOLEAN, nav \in {"raise", "login", "app"} :
        LET ok == is_logged_in_ultra_fast(onLogin, marker)
            cached == get_cached_session(session_cache, clock)
            checked == <<Op("is_logged_in_ultra_fast", None, ok)>>
            asked == checked \o <<Op("get_cached_session", None, cached)>>
        IN  /\ ((ok \/ ~cached) => nav = "app")
            /\ IF ok
               THEN /\ Log(checked)
                    /\ pc' = "wait_rows"
                    /\ UNCHANGED <<raised, onLogin>>
               ELSE IF ~cached
               THEN /\ Log(asked)
                    /\ pc' = "login1"
                    /\ UNCHANGED <<raised, onLogin>>
               ELSE IF nav = "raise"
               THEN /\ Log(asked)
                    /\ Raise("Timeout")
                    /\ UNCHANGED onLogin
               ELSE /\ Log(asked \o <<Op("reload", None, nav = "app")>>)
                    /\ onLogin' = (nav = "login")
                    /\ pc' = "verify"
                    /\ UNCHANGED raised
    /\ UNCHANGED <<processVars, matched, scan>>
    /\ UNCHANGED <<session_cache, store, prevLogin, project_rows, dupRows, i,
                   project_data, opened, rows_inserted, preview, results,
                   clean, insertCalls, browserOpen>>

\* A failed login that is logged and then ignored.
LoginFailedIgnored(next) ==
    /\ pc' = next
    /\ UNCHANGED raised

\* raise RuntimeError("Login failed") at a call site of the login, instead
\* of going on to position next.
LoginFailed(next) == Raise("LoginFailed")

\* A credential login and what follows it at a call site: on success
\* (the session is cached when caches holds) page.goto(url), then position
\* next; on failure RuntimeError("Login failed").
LoginStep(caches, next) ==
    /\ \E e \in LoginEnvs, nav \in {"raise", "login", "app"} :
        LET ok == login_to_estimate_one_fast(e)
            tried == <<Op("login", None, ok)>>
            kept == IF caches THEN <<Op("cache_session", None, TRUE)>>
                    ELSE <<>>
        IN  \* one representative where the landing is not read: after a
            \* failed login, and where no login check follows
            /\ (~ok => nav = "app")
            /\ (next # "verify" => nav # "login")
            /\ IF ~ok
               THEN /\ Log(tried)
                    /\ LoginFailed(next)
                    /\ UNCHANGED <<session_cache, onLogin>>
               ELSE /\ session_cache' = IF caches THEN cache_session(clock)
                                        ELSE session_cache
                    /\ IF nav = "raise"
                       THEN /\ Log(tried \o kept)
                            /\ Raise("Timeout")
                            /\ UNCHANGED onLogin
                       ELSE /\ Log(tried \o kept
                                   \o <<Op("goto", None, nav = "app")>>)
                            /\ onLogin' = (nav = "login")
                            /\ pc' = next
                            /\ UNCHANGED raised
    /\ UNCHANGED <<processVars, matched, scan>>
    /\ UNCHANGED <<store, prevLogin, project_rows, dupRows, project_data,
                   opened, rows_inserted, preview, results, clean,
                   insertCalls, browserOpen>>

\* _scrape_estimate_one_sync: "Need to login..."
ListingLogin ==
    /\ pc = "login1"
    /\ mode = "listing"
    /\ LoginStep(TRUE, "verify")
    /\ UNCHANGED i

\* _scrape_estimate_one_sync: is_logged_in after the login or the reload.
ListingVerify ==
    /\ pc = "verify"
    /\ \E marker \in BOOLEAN :
        LET ok == is_logged_in(onLogin, marker)
        IN  /\ Log(<<Op("is_logged_in", None, ok)>>)
            /\ pc' = IF ok THEN "wait_rows" ELSE "login2"
    /\ UNCHANGED <<processVars, matched, scan>>
    /\ UNCHANGED <<session_cache, store, prevLogin, onLogin, project_rows,
                   dupRows, i, project_data, opened, rows_inserted, preview,
                   results, clean, insertCalls, raised, browserOpen>>

\* _scrape_estimate_one_sync: "Cached session invalid, need fresh login..."
ListingRelogin ==
    /\ pc = "login2"
    /\ LoginStep(TRUE, "wait_rows")
    /\ UNCHANGED i

\* The wait for the rows with an empty row list taken as the end of the job.
WaitRowsEmptyReturns ==
    /\ pc = "wait_rows"
    /\ \E appeared \in BOOLEAN, n \in 0..MaxRows :
        /\ (~appeared => n = 0)
        /\ Log(<<Op("wait_rows", None, appeared)>>)
        /\ IF ~appeared
           THEN /\ Raise("Timeout")
                /\ UNCHANGED <<project_rows, i>>
           ELSE IF n = 0
           THEN /\ pc' = "finally"
                /\ UNCHANGED <<raised, project_rows, i>>
           ELSE /\ project_rows' = n
                /\ i' = 1
                /\ pc' = "row"
                /\ UNCHANGED raised
    /\ UNCHANGED <<processVars, matched, scan>>
    /\ UNCHANGED <<session_cache, store, prevLogin, onLogin, dupRows,
                   project_data, opened, rows_inserted, preview, results,
                   clean, insertCalls, browserOpen>>

\* _scrape_estimate_one_sync: wait for the row container, collect the rows.
WaitRows ==
    /\ pc = "wait_rows"
    /\ \E appeared \in BOOLEAN, n \in 0..MaxRows :
        /\ (~appeared => n = 0)
        /\ Log(<<Op("wait_rows", None, appeared)>>)
        /\ IF ~appeared
           THEN /\ Raise("Timeout")
                /\ UNCHANGED <<project_rows, i>>
           ELSE IF n = 0
           THEN /\ Raise("NoRows")
                /\ UNCHANGED <<project_rows, i>>
           ELSE /\ project_rows' = n
                /\ i' = 1
                /\ pc' = "row"
                /\ UNCHANGED raised
    /\ UNCHANGED <<processVars, matched, scan>>
    /\ UNCHANGED <<session_cache, store, prevLogin, onLogin, dupRows,
                   project_data, opened, rows_inserted, preview, results,
                   clean, insertCalls, browserOpen>>

\* Position after candidate number i of n; the candidate's record is dropped.
AfterCandidate(n) ==
    /\ i' = i + 1
    /\ pc' = IF i = n THEN "finally" ELSE (IF mode = "ids" THEN "loop"
                                           ELSE "row")
    /\ project_data' = EmptyDict
    /\ opened' = None

\* _scrape_estimate_one_sync, loop body up to the insert: row extraction,
\* project link lookup, click, popup extraction, popup close.  The row's
\* project id element is read here for the first time.
ProcessRow ==
    /\ pc = "row"
    /\ \E rowId \in IdOpt, e \in RowEnvs :
        LET record == extract_single_project_row(rowId, e)
            pd1 == ("Row Number" :> i) @@ ("source_url" :> "url")
                   @@ ("scraped_at" :> clock) @@ record
            pd2 == Update(pd1, e.details)
            extracted == <<Op("extract_row", rowId, e.exc = "none")>>
            located == extracted \o <<Op("locate_link", rowId, e.link)>>
            clicked == located \o <<Op("click_link", rowId, e.click)>>
        IN  /\ clean' = (clean /\ e.exc = "none" /\ e.linkQuery /\ e.link
                         /\ e.click)
            /\ dupRows' = IF Held(store0, rowId) > 0
                           THEN dupRows + 1 ELSE dupRows
            /\ IF ~Truthy(record)
               THEN /\ ops' = extracted
                    /\ AfterCandidate(project_rows)
                    /\ UNCHANGED raised
               ELSE IF ~e.linkQuery
               THEN /\ ops' = extracted
                    /\ project_data' = pd1
                    /\ Raise("TargetClosed")
                    /\ UNCHANGED <<i, opened>>
               ELSE IF ~e.link
               THEN /\ ops' = located
                    /\ project_data' = pd1
                    /\ pc' = "row_insert"
                    /\ UNCHANGED <<raised, i, opened>>
               ELSE IF e.click
               THEN /\ ops' = clicked \o <<Op("extract_popup", rowId, TRUE),
                                           Op("close_popup", rowId, TRUE)>>
                    /\ project_data' = pd2
                    /\ pc' = "row_insert"
                    /\ UNCHANGED <<raised, i, opened>>
               ELSE IF e.escape
               THEN /\ ops' = clicked \o <<Op("escape", rowId, TRUE)>>
                    /\ project_data' = pd1
                    /\ pc' = "row_insert"
                    /\ UNCHANGED <<raised, i, opened>>
               ELSE /\ ops' = clicked \o <<Op("escape", rowId, FALSE)>>
                    /\ project_data' = pd1
                    /\ Raise("TargetClosed")
                    /\ UNCHANGED <<i, opened>>
    /\ UNCHANGED <<processVars, matched, scan>>
    /\ UNCHANGED <<session_cache, store, prevLogin, onLogin, project_rows,
                   rows_inserted, preview, results, insertCalls, browserOpen>>

\* _scrape_estimate_one_sync: insert_to_supabase, the counter and the preview.
RowInsert ==
    /\ pc = "row_insert"
    /\ \E answer \in InsertAnswers :
        LET ok == insert_to_supabase(answer)
        IN  /\ store' = StoreAfter(store, project_data, clock, answer)
            /\ Log(<<Op("insert", Get(supabase_data(project_data, clock),
                                      "project_id"), ok)>>)
            /\ rows_inserted' = IF ok THEN rows_inserted + 1
                                ELSE rows_inserted
            /\ preview' =
                IF ok /\ preview = None
                THEN Some([project_name |-> Get(project_data, "Project Name"),
                           project_id |-> Get(project_data, "Project ID")])
                ELSE preview
            /\ clean' = (clean /\ ok)
    /\ insertCalls' = insertCalls + 1
    /\ AfterCandidate(project_rows)
    /\ UNCHANGED <<processVars, matched, scan>>
    /\ UNCHANGED <<session_cache, prevLogin, onLogin, project_rows, dupRows,
                   results, raised, browserOpen>>

\* _scrape_projects_by_ids_sync: the login check.
IdsAuth ==
    /\ pc = "auth"
    /\ mode = "ids"
    /\ \E marker \in BOOLEAN :
        LET ok == is_logged_in_ultra_fast(onLogin, marker)
        IN  /\ Log(<<Op("is_logged_in_ultra_fast", None, ok)>>)
            /\ pc' = IF ok THEN "loop" ELSE "login1"
            /\ i' = IF ok THEN 1 ELSE i
    /\ UNCHANGED <<processVars, matched, scan>>
    /\ UNCHANGED <<session_cache, store, prevLogin, onLogin, project_rows,
                   dupRows, project_data, opened, rows_inserted, preview,
                   results, clean, insertCalls, raised, browserOpen>>

\* _scrape_projects_by_ids_sync: "Not logged in, attempting login..."
IdsLogin ==
    /\ pc = "login1"
    /\ mode = "ids"
    /\ LoginStep(FALSE, "loop")
    /\ i' = IF pc' = "loop" THEN 1 ELSE i

\* A search that returned False passed over without an entry in the summary.
SearchNotFoundUncounted(project_id) ==
    /\ ops' = <<Op("search", Some(project_id), FALSE)>>
    /\ clean' = FALSE
    /\ scan' = 0
    /\ AfterCandidate(Len(project_ids))
    /\ UNCHANGED results

\* search_project_by_id returned False: the id is counted as failed.
SearchNotFound(project_id) ==
    /\ results' =
        [results EXCEPT
            !.failed = @ + 1,
            !.details = Append(@, [id |-> project_id,
                                   msg |-> "Not found in search"])]
    /\ ops' = <<Op("search", Some(project_id), FALSE)>>
    /\ clean' = FALSE
    /\ scan' = 0
    /\ AfterCandidate(Len(project_ids))

\* search_project_by_id returned True after opening a popup.
SearchFound(project_id, popup) ==
    /\ opened' = popup
    /\ ops' = <<Op("search", Some(project_id), TRUE),
                Op("open_detail", popup, TRUE)>>
    /\ pc' = "id_extract"
    /\ scan' = 0
    /\ UNCHANGED <<results, clean, i, project_data>>

\* _scrape_projects_by_ids_sync, step 1: the search for the id, up to the
\* result rows.
IdsSearch ==
    /\ pc = "loop"
    /\ \E e \in SearchEnvs :
        LET project_id == project_ids[i]
            r == search_project_by_id(e, project_id)
        IN  /\ matched' = IdMatches(project_id, e.suggestion)
            /\ IF r.result = "not_found" THEN SearchNotFound(project_id)
               ELSE IF r.result = "found"
                    THEN SearchFound(project_id, r.opened)
               ELSE /\ pc' = "id_scan"
                    /\ scan' = 1
                    /\ ops' = <<>>
                    /\ UNCHANGED <<results, clean, i, project_data, opened>>
    /\ UNCHANGED processVars
    /\ UNCHANGED <<session_cache, store, prevLogin, onLogin, project_rows,
                   dupRows, rows_inserted, preview, insertCalls, raised,
                   browserOpen>>

\* search_project_by_id, the loop over the result rows: the rows are over,
\* or the next one is read.
IdsScanRow ==
    /\ pc = "id_scan"
    /\ LET project_id == project_ids[i]
       IN  \/ /\ SearchNotFound(project_id)
              /\ UNCHANGED matched
           \/ /\ scan <= MaxResultRows
              /\ \E row \in ResultRows, linkClickOk \in BOOLEAN :
                  LET r == search_result_row(row, linkClickOk, project_id)
                  IN  \* one representative of the rows passed over, per
                      \* answer to "does its id contain the id searched"
                      /\ (r = "skipped" =>
                            /\ linkClickOk
                            /\ IF IdMatches(project_id, row.id)
                               THEN \A o \in ResultRows :
                                        IdMatches(project_id, o.id) =>
                                            Len(The(o.id)) <= Len(The(row.id))
                               ELSE row.id = None /\ row.link)
                      /\ matched' = (matched \/ IdMatches(project_id, row.id))
                      /\ IF r = "not_found" THEN SearchNotFound(project_id)
                         ELSE IF r = "found"
                              THEN SearchFound(project_id, row.id)
                         ELSE /\ scan' = scan + 1
                              /\ UNCHANGED <<results, clean, i, project_data,
                                             opened, ops, pc>>
    /\ UNCHANGED processVars
    /\ UNCHANGED <<session_cache, store, prevLogin, onLogin, project_rows,
                   dupRows, rows_inserted, preview, insertCalls, raised,
                   browserOpen>>

\* _scrape_projects_by_ids_sync, steps 2 and 3: popup wait and extraction.
IdsExtract ==
    /\ pc = "id_extract"
    /\ \E e \in PopupEnvs :
        /\ project_data' = ("Project ID" :> project_ids[i])
                           @@ ("source_url" :> "url")
                           @@ ("scraped_at" :> clock)
                           @@ extract_project_details_fast(e)
        /\ Log(<<Op("extract_popup", Some(project_ids[i]), ~e.exc)>>)
    /\ pc' = "id_insert"
    /\ UNCHANGED <<processVars, matched, scan>>
    /\ UNCHANGED <<session_cache, store, prevLogin, onLogin, project_rows,
                   dupRows, i, opened, rows_inserted, preview, results, clean,
                   insertCalls, raised, browserOpen>>

\* Steps 4 and 5 with the sample taken from every record inserted.
IdsInsertSampleOverwritten ==
    /\ pc = "id_insert"
    /\ \E answer \in InsertAnswers :
        LET ok == insert_to_supabase(answer)
            project_id == project_ids[i]
            sample == [project_name |-> Get(project_data, "Project Name"),
                       project_id |-> Get(project_data, "Project ID")]
        IN  /\ store' = StoreAfter(store, project_data, clock, answer)
            /\ Log(<<Op("insert", Get(supabase_data(project_data, clock),
                                      "project_id"), ok),
                     Op("close_popup", Some(project_id), TRUE)>>)
            /\ results' =
                IF ok
                THEN [results EXCEPT
                        !.processed = @ + 1,
                        !.sample_project =
                            Some(sample),
                        !.details = Append(@, [id |-> project_id,
                                         msg |-> "Successfully processed"])]
                ELSE [results EXCEPT
                        !.failed = @ + 1,
                        !.details = Append(@, [id |-> project_id,
                                         msg |-> "Database insertion failed"])]
            /\ clean' = (clean /\ ok)
    /\ insertCalls' = insertCalls + 1
    /\ AfterCandidate(Len(project_ids))
    /\ UNCHANGED <<processVars, matched, scan>>
    /\ UNCHANGED <<session_cache, prevLogin, onLogin, project_rows, dupRows,
                   rows_inserted, preview, raised, browserOpen>>

\* Steps 4 and 5 without the call of close_popup_fast.
IdsInsertPopupLeftOpen ==
    /\ pc = "id_insert"
    /\ \E answer \in InsertAnswers :
        LET ok == insert_to_supabase(answer)
            project_id == project_ids[i]
            sample == [project_name |-> Get(project_data, "Project Name"),
                       project_id |-> Get(project_data, "Project ID")]
        IN  /\ store' = StoreAfter(store, project_data, clock, answer)
            /\ Log(<<Op("insert", Get(supabase_data(project_data, clock),
                                      "project_id"), ok)>>)
            /\ results' =
                IF ok
                THEN [results EXCEPT
                        !.processed = @ + 1,
                        !.sample_project =
                            IF @ = None THEN Some(sample) ELSE @,
                        !.details = Append(@, [id |-> project_id,
                                         msg |-> "Successfully processed"])]
                ELSE [results EXCEPT
                        !.failed = @ + 1,
                        !.details = Append(@, [id |-> project_id,
                                         msg |-> "Database insertion failed"])]
            /\ clean' = (clean /\ ok)
    /\ insertCalls' = insertCalls + 1
    /\ AfterCandidate(Len(project_ids))
    /\ UNCHANGED <<processVars, matched, scan>>
    /\ UNCHANGED <<session_cache, prevLogin, onLogin, project_rows, dupRows,
                   rows_inserted, preview, raised, browserOpen>>

\* _scrape_projects_by_ids_sync, steps 4 and 5: insert, summary, popup close.
IdsInsert ==
    /\ pc = "id_insert"
    /\ \E answer \in InsertAnswers :
        LET ok == insert_to_supabase(answer)
            project_id == project_ids[i]
            sample == [project_name |-> Get(project_data, "Project Name"),
                       project_id |-> Get(project_data, "Project ID")]
        IN  /\ store' = StoreAfter(store, project_data, clock, answer)
            /\ Log(<<Op("insert", Get(supabase_data(project_data, clock),
                                      "project_id"), ok),
                     Op("close_popup", Some(project_id), TRUE)>>)
            /\ results' =
                IF ok
                THEN [results EXCEPT
                        !.processed = @ + 1,
                        !.sample_project =
                            IF @ = None THEN Some(sample) ELSE @,
                        !.details = Append(@, [id |-> project_id,
                                         msg |-> "Successfully processed"])]
                ELSE [results EXCEPT
                        !.failed = @ + 1,
                        !.details = Append(@, [id |-> project_id,
                                         msg |-> "Database insertion failed"])]
            /\ clean' = (clean /\ ok)
    /\ insertCalls' = insertCalls + 1
    /\ AfterCandidate(Len(project_ids))
    /\ UNCHANGED <<processVars, matched, scan>>
    /\ UNCHANGED <<session_cache, prevLogin, onLogin, project_rows, dupRows,
                   rows_inserted, preview, raised, browserOpen>>

\* The HTTP response the endpoint makes of the job's result.
ResponseOf(m, exc, ids, inserted, res) ==
    IF exc # ""
    THEN [code |-> IF m = "listing" THEN ListingErrorCode(exc)
                   ELSE IdsErrorCode(exc),
          status |-> "error",
          data |-> EmptyDict]
    ELSE IF m = "listing"
    THEN [code |-> 200,
          status |-> "success",
          data |-> ("projects_scraped" :> inserted)]
    ELSE [code |-> 200,
          status |-> IdsStatus(res.processed, res.failed),
          data |-> ("total_requested" :> Len(ids))
                   @@ ("processed" :> res.processed)
                   @@ ("failed" :> res.failed)]

\* The end of the job with the two close calls after the loop, not in a
\* finally block: an exception passes them by.
RespondWithoutFinally ==
    /\ pc = "finally"
    /\ ops' = IF raised # "" THEN ops
              ELSE <<Op("close_context", None, TRUE),
                     Op("close_browser", None, TRUE)>>
    /\ browserOpen' = (raised # "")
    /\ prevLogin' = prevLogin \cup session_cache
    /\ response' = ResponseOf(mode, raised, project_ids, rows_inserted,
                              results)
    /\ pc' = "done"
    /\ session_cache' = None
    /\ onLogin' = FALSE
    /\ project_ids' = <<>>
    /\ project_rows' = 0
    /\ dupRows' = 0
    /\ i' = 0
    /\ project_data' = EmptyDict
    /\ opened' = None
    /\ matched' = FALSE
    /\ scan' = 0
    /\ rows_inserted' = 0
    /\ preview' = None
    /\ results' = NoResults
    /\ clean' = TRUE
    /\ insertCalls' = 0
    /\ store0' = store
    /\ UNCHANGED <<clock, ticks, lastGet, everValid, jobs, mode, store,
                   raised, sideVars>>

\* finally: context.close(), browser.close(); the job function then
\* returns its summary or lets the exception through, and the endpoint
\* answers the request.  The job's scraper, page and local variables are
\* gone after that; the log of a job that raised is kept.
Respond ==
    /\ pc = "finally"
    /\ ops' = (IF raised # "" THEN ops ELSE <<>>)
               \o <<Op("close_context", None, TRUE),
                    Op("close_browser", None, TRUE)>>
    /\ browserOpen' = FALSE
    /\ prevLogin' = prevLogin \cup session_cache
    /\ response' = ResponseOf(mode, raised, project_ids, rows_inserted,
                              results)
    /\ pc' = "done"
    /\ session_cache' = None
    /\ onLogin' = FALSE
    /\ project_ids' = <<>>
    /\ project_rows' = 0
    /\ dupRows' = 0
    /\ i' = 0
    /\ project_data' = EmptyDict
    /\ opened' = None
    /\ matched' = FALSE
    /\ scan' = 0
    /\ rows_inserted' = 0
    /\ preview' = None
    /\ results' = NoResults
    /\ clean' = TRUE
    /\ insertCalls' = 0
    /\ store0' = store
    /\ UNCHANGED <<clock, ticks, lastGet, everValid, jobs, mode, store,
                   raised, sideVars>>

Next ==
    \/ SubmitListing
    \/ SubmitIds
    \/ Goto
    \/ ListingAuth
    \/ ListingLogin
    \/ ListingVerify
    \/ ListingRelogin
    \/ WaitRows
    \/ ProcessRow
    \/ RowInsert
    \/ IdsAuth
    \/ IdsLogin
    \/ IdsSearch
    \/ IdsScanRow
    \/ IdsExtract
    \/ IdsInsert
    \/ Respond

Spec == Init /\ [][Next]_vars

\* ------------------------------------------------------- the worker pool
\* Requests whose job function is running on a worker thread.
Running == {r \in PoolRequests :
                phase[r] \in {"create", "ready", "in_op", "insert"}}

\* ThreadPoolExecutor without the limit on its threads.
worker_free_always(running) == TRUE

\* ThreadPoolExecutor: a work item is taken when fewer than max_workers
\* threads are busy.
worker_free(running) == Cardinality(running) < max_workers

\* One scraper and page kept for every job.
SharedScraper(r) == 1

\* EstimateOneAPIScraper(...), launch, new_context, new_page inside the job
\* function: objects of this job, new at every call.
NewScraper(r) == r

\* What the checks of one request meet.
CheckEnvs ==
    {e \in [input : BOOLEAN,       \* project_ids given (id endpoint)
            url : BOOLEAN,         \* an http(s) estimateone.com URL
            bearer : BOOLEAN,      \* an "Authorization: Bearer ..." header
            user : BOOLEAN,        \* get_user returns a user for the token
            credentials : {"found", "none", "undecryptable", "error"}] :
        \* one representative per outcome of the checks not reached
        /\ (~e.input => e.url)
        /\ (~(e.input /\ e.url) => e.bearer)
        /\ (~(e.input /\ e.url /\ e.bearer) => e.user)
        /\ (~(e.input /\ e.url /\ e.bearer /\ e.user)
                => e.credentials = "found")}

\* The endpoint's checks without the lookup of the stored credentials.
endpoint_checks_without_lookup(e) ==
    IF ~e.input THEN 400
    ELSE IF ~e.url THEN 400
    ELSE IF ~e.bearer THEN 401
    ELSE IF ~e.user THEN 401
    ELSE 0

\* The endpoint's checks before the job: status of the HTTPException
\* raised, 0 when all pass.
endpoint_checks(e) ==
    IF ~e.input THEN 400
    ELSE IF ~e.url THEN 400
    ELSE IF ~e.bearer THEN 401
    ELSE IF ~e.user THEN 401
    ELSE IF e.credentials = "none" THEN 404
    ELSE IF e.credentials \in {"undecryptable", "error"} THEN 500
    ELSE 0

\* The endpoint, on the event loop: its checks, then run_in_executor hands
\* the whole job function to thread_pool and the handler awaits; a failed
\* check raises its HTTPException instead.
PoolSubmit ==
    \E r \in PoolRequests, e \in CheckEnvs :
        /\ phase[r] = "new"
        /\ \A q \in 1..(r - 1) : phase[q] # "new"
        /\ checks' = [checks EXCEPT ![r] = Some(e)]
        /\ reject_code' = [reject_code EXCEPT ![r] = endpoint_checks(e)]
        /\ IF endpoint_checks(e) = 0
           THEN /\ phase' = [phase EXCEPT ![r] = "queued"]
                /\ pool_queue' = Append(pool_queue, r)
           ELSE /\ phase' = [phase EXCEPT ![r] = "rejected"]
                /\ UNCHANGED pool_queue
        /\ UNCHANGED <<ops_done, scraper_of, users, in_flight, browser_by,
                       store_users>>
        /\ UNCHANGED <<serviceVars, budgetVars, loginVars, credVars,
                       popupVars>>

\* A worker thread takes the oldest work item.
PoolTake ==
    /\ pool_queue # <<>>
    /\ worker_free(Running)
    /\ phase' = [phase EXCEPT ![Head(pool_queue)] = "create"]
    /\ pool_queue' = Tail(pool_queue)
    /\ UNCHANGED <<checks, reject_code, ops_done, scraper_of, users,
                   in_flight, browser_by, store_users>>
    /\ UNCHANGED <<serviceVars, budgetVars, loginVars, credVars, popupVars>>

\* The job function's first lines, on the worker: its scraper, browser,
\* context and page.
JobCreate ==
    \E r \in PoolRequests :
        /\ phase[r] = "create"
        /\ scraper_of' = [scraper_of EXCEPT ![r] = Some(NewScraper(r))]
        /\ phase' = [phase EXCEPT ![r] = "ready"]
        /\ UNCHANGED <<checks, reject_code, pool_queue, ops_done, users,
                       in_flight, browser_by, store_users>>
        /\ UNCHANGED <<serviceVars, budgetVars, loginVars, credVars,
                       popupVars>>

\* A call of the synchronous browser API begins on the job's thread; it
\* uses the job's page, and its session cache at the login.
JobOpBegin ==
    \E r \in PoolRequests :
        /\ phase[r] = "ready"
        /\ ops_done[r] < MaxOps
        /\ in_flight' = [in_flight EXCEPT ![r] = @ + 1]
        /\ users' = [users EXCEPT ![The(scraper_of[r])] = @ \cup {r}]
        /\ browser_by' = browser_by \cup {"worker"}
        /\ phase' = [phase EXCEPT ![r] = "in_op"]
        /\ UNCHANGED <<checks, reject_code, pool_queue, ops_done,
                       scraper_of, store_users>>
        /\ UNCHANGED <<serviceVars, budgetVars, loginVars, credVars,
                       popupVars>>

\* The call returns.
JobOpEnd ==
    \E r \in PoolRequests :
        /\ phase[r] = "in_op"
        /\ in_flight' = [in_flight EXCEPT ![r] = @ - 1]
        /\ ops_done' = [ops_done EXCEPT ![r] = @ + 1]
        /\ phase' = [phase EXCEPT
                        ![r] = IF ops_done[r] + 1 = MaxOps THEN "insert"
                               ELSE "ready"]
        /\ UNCHANGED <<checks, reject_code, pool_queue, scraper_of, users,
                       browser_by, store_users>>
        /\ UNCHANGED <<serviceVars, budgetVars, loginVars, credVars,
                       popupVars>>

\* insert_to_supabase through the module's one database client, then the
\* finally block and the return of the job function.
JobInsert ==
    \E r \in PoolRequests :
        /\ phase[r] = "insert"
        /\ store_users' = store_users \cup {r}
        /\ phase' = [phase EXCEPT ![r] = "returned"]
        /\ UNCHANGED <<checks, reject_code, pool_queue, ops_done,
                       scraper_of, users, in_flight, browser_by>>
        /\ UNCHANGED <<serviceVars, budgetVars, loginVars, credVars,
                       popupVars>>

\* The endpoint's await returns and the response is made.
PoolAnswer ==
    \E r \in PoolRequests :
        /\ phase[r] = "returned"
        /\ phase' = [phase EXCEPT ![r] = "answered"]
        /\ UNCHANGED <<checks, reject_code, pool_queue, ops_done,
                       scraper_of, users, in_flight, browser_by, store_users>>
        /\ UNCHANGED <<serviceVars, budgetVars, loginVars, credVars,
                       popupVars>>

PoolNext ==
    \/ PoolSubmit
    \/ PoolTake
    \/ JobCreate
    \/ JobOpBegin
    \/ JobOpEnd
    \/ JobInsert
    \/ PoolAnswer

PoolSpec == Init /\ [][PoolNext]_vars

\* ------------------------------------------- POST /login, stored credentials
\* Answers of the database to the insert of the credentials row.
CredentialAnswers == {"ok", "empty", "error"}

\* The request arrives: email or password missing (400), or
\* sign_in_with_password refuses (401) or accepts it.
AuthSignIn ==
    \E r \in LoginRequests, outcome \in {"400", "401", "signed_in"} :
        /\ auth_phase[r] = "new"
        /\ \A q \in 1..(r - 1) : auth_phase[q] # "new"
        /\ auth_phase' = [auth_phase EXCEPT ![r] = outcome]
        /\ UNCHANGED user_credentials
        /\ UNCHANGED <<serviceVars, budgetVars, loginVars, poolVars,
                       popupVars>>

\* The select of the user's 'estimate_one' rows: some exist, or none, or
\* the select raises and the login answers without stored credentials.
AuthCheckExisting ==
    \E r \in LoginRequests, selectOk \in BOOLEAN :
        /\ auth_phase[r] = "signed_in"
        /\ auth_phase' = [auth_phase EXCEPT
                            ![r] = IF ~selectOk THEN "not_stored"
                                   ELSE IF user_credentials > 0 THEN "stored"
                                   ELSE "none_found"]
        /\ UNCHANGED user_credentials
        /\ UNCHANGED <<serviceVars, budgetVars, loginVars, poolVars,
                       popupVars>>

\* No row was found: the insert of the credentials row, then the response.
AuthInsert ==
    \E r \in LoginRequests, answer \in CredentialAnswers :
        /\ auth_phase[r] = "none_found"
        /\ user_credentials' = IF answer = "ok" THEN user_credentials + 1
                               ELSE user_credentials
        /\ auth_phase' = [auth_phase EXCEPT
                            ![r] = IF answer = "ok" THEN "stored"
                                   ELSE "not_stored"]
        /\ UNCHANGED <<serviceVars, budgetVars, loginVars, poolVars,
                       popupVars>>

CredNext == AuthSignIn \/ AuthCheckExisting \/ AuthInsert

CredSpec == Init /\ [][CredNext]_vars

\* ---------------------------------------------- one login, with its times
\* Milliseconds after the click at which a sign of the login's end shows:
\* within the first wait, within the second, after both.
SignalTimes == {5000, 15000, 25000, 35000}

\* The URL leaves the login path, the tender rows appear, an inline error
\* appears: each at some time, or never (None).
Signals == [url : {None} \cup {Some(t) : t \in SignalTimes},
            marker : {None} \cup {Some(t) : t \in SignalTimes},
            error : {None} \cup {Some(t) : t \in SignalTimes}]

\* A sign shows before the given time.
Before(signal, t) == signal # None /\ The(signal) < t

\* What login_to_estimate_one_fast sees of the signs: wait_for_function for
\* url_timeout, then wait_for_selector for rows_timeout, then page.url.
LoginEnvOf(form, sig) ==
    [form |-> form,
     urlLeft |-> Before(sig.url, url_timeout),
     dashboard |-> Before(sig.marker, url_timeout + rows_timeout),
     manual |-> Before(sig.url, url_timeout + rows_timeout)]

LoginInit ==
    /\ ServiceInit
    /\ BudgetIdle
    /\ PoolInit
    /\ CredInit
    /\ PopupIdle
    /\ login_pc = "anonymous"
    /\ signals \in Signals
    /\ login_result = FALSE

\* login_to_estimate_one_fast up to the click on the login button.
LoginSubmit ==
    /\ login_pc = "anonymous"
    /\ \E form \in BOOLEAN :
        IF form
        THEN /\ login_pc' = "submitted"
             /\ UNCHANGED login_result
        ELSE /\ login_pc' = "except"
             /\ login_result' = login_to_estimate_one_fast(
                                    LoginEnvOf(FALSE, signals))
    /\ UNCHANGED <<serviceVars, budgetVars, poolVars, credVars, popupVars,
                   signals>>

\* login_to_estimate_one_fast after the click: the three methods.
LoginWait ==
    /\ login_pc = "submitted"
    /\ login_result' = login_to_estimate_one_fast(LoginEnvOf(TRUE, signals))
    /\ login_pc' = "returned"
    /\ UNCHANGED <<serviceVars, budgetVars, poolVars, credVars, popupVars,
                   signals>>

LoginNext == LoginSubmit \/ LoginWait

LoginSpec == LoginInit /\ [][LoginNext]_vars

\* ------------------------------------------------------------- dashboard
\* Budget strings are sequences of one-character strings.
DigitChars == <<"0", "1", "2", "3", "4", "5", "6", "7", "8", "9">>

IsDigit(c) == \E d \in DOMAIN DigitChars : DigitChars[d] = c

DigitOf(c) == (CHOOSE d \in DOMAIN DigitChars : DigitChars[d] = c) - 1

\* A character of the class [\d,].
InGroup(c) == IsDigit(c) \/ c = ","

\* Length of the longest prefix of s made of [\d,] characters.
RECURSIVE GroupPrefix(_)
GroupPrefix(s) ==
    IF s = <<>> \/ ~InGroup(Head(s)) THEN 0
    ELSE 1 + GroupPrefix(Tail(s))

\* re.findall(r'[\d,]+', s): the maximal runs of [\d,], left to right.
RECURSIVE findall(_)
findall(s) ==
    IF s = <<>> THEN <<>>
    ELSE IF ~InGroup(Head(s)) THEN findall(Tail(s))
    ELSE LET n == GroupPrefix(s)
         IN  <<SubSeq(s, 1, n)>> \o findall(SubSeq(s, n + 1, Len(s)))

\* num.replace(',', '')
replace_commas(num) == SelectSeq(num, LAMBDA c : c # ",")

RECURSIVE DecimalValue(_)
DecimalValue(t) ==
    IF t = <<>> THEN 0
    ELSE 10 * DecimalValue(SubSeq(t, 1, Len(t) - 1)) + DigitOf(t[Len(t)])

\* float(t) of a string of digits: its value (exact at these lengths), or
\* None for the ValueError that float('') raises.
float(t) == IF t = <<>> THEN None ELSE Some(DecimalValue(t))

SetMax(S) == CHOOSE m \in S : \A x \in S : x <= m

\* extract_budget_value: 0.0 for an empty string, for a string without a
\* group, and when a conversion raises (the except clause passes).
extract_budget_value(budget_str) ==
    IF budget_str = <<>> THEN 0
    ELSE LET numbers == findall(budget_str)
             values == [j \in DOMAIN numbers |->
                            float(replace_commas(numbers[j]))]
         IN  IF numbers = <<>> THEN 0
             ELSE IF \E j \in DOMAIN values : values[j] = None THEN 0
             ELSE SetMax({The(values[j]) : j \in DOMAIN values})

\* categorize_budget with the lower bound of each range left out of it.
categorize_budget_closed(value) ==
    IF value = 0 THEN "Not Specified"
    ELSE IF value <= 50000 THEN "Under $50k"
    ELSE IF value <= 100000 THEN "$50k - $100k"
    ELSE IF value <= 500000 THEN "$100k - $500k"
    ELSE IF value <= 1000000 THEN "$500k - $1M"
    ELSE "Over $1M"

\* categorize_budget
categorize_budget(value) ==
    IF value = 0 THEN "Not Specified"
    ELSE IF value < 50000 THEN "Under $50k"
    ELSE IF value < 100000 THEN "$50k - $100k"
    ELSE IF value < 500000 THEN "$100k - $500k"
    ELSE IF value < 1000000 THEN "$500k - $1M"
    ELSE "Over $1M"

\* Characters of the generated budget strings.
BudgetChars == {"1", "5", ",", "x"}

\* Budget strings at the ends of the ranges, and the strings of the
\* dashboard's examples.
BudgetSamples ==
    {<<"T", "B", "D">>,
     <<"$", "5", "0", ",", "0", "0", "0", " ", "-", " ",
       "$", "1", "0", "0", ",", "0", "0", "0">>,
     <<"0">>,
     <<"4", "9", "9", "9", "9">>,
     <<"5", "0", "0", "0", "0">>,
     <<"9", "9", ",", "9", "9", "9">>,
     <<"1", "0", "0", "0", "0", "0">>,
     <<"4", "9", "9", "9", "9", "9">>,
     <<"5", "0", "0", ",", "0", "0", "0">>,
     <<"9", "9", "9", "9", "9", "9">>,
     <<"1", "0", "0", "0", "0", "0", "0">>,
     <<"$", "2", ",", "5", "0", "0", ",", "0", "0", "0">>}

BudgetStrings ==
    UNION {[1..n -> BudgetChars] : n \in 0..MaxLen} \cup BudgetSamples

\* get_dashboard_trends is at a project whose budget column holds `budget`.
BudgetInit ==
    /\ ServiceInit
    /\ LoginIdle
    /\ PoolInit
    /\ CredInit
    /\ PopupIdle
    /\ budget_pc = "row"
    /\ budget \in BudgetStrings
    /\ budget_value = 0
    /\ range_category = ""

\* get_dashboard_trends, loop body: the value of the project's budget and
\* the range it is counted in.
TrendsRow ==
    /\ budget_pc = "row"
    /\ LET value == IF budget # <<>> THEN extract_budget_value(budget)
                    ELSE 0
       IN  /\ budget_value' = value
           /\ range_category' = categorize_budget(value)
    /\ budget_pc' = "counted"
    /\ UNCHANGED <<serviceVars, loginVars, poolVars, credVars, popupVars,
                   budget>>

BudgetNext == TrendsRow

BudgetSpec == BudgetInit /\ [][BudgetNext]_vars

\* ------------------------------------------ one popup, read then closed
\* One call on the page made for the popup: which call, whether it passed
\* (a read found its element, a wait ended before its timeout, a key press
\* did not raise), and the milliseconds it waited.
Call(name, ok, ms) == [op |-> name, ok |-> ok, ms |-> ms]

\* What the open popup shows: a details section or none, a "read more"
\* control in it or none, a title, builder descriptions, and the read that
\* raises, if one does.
PopupPages ==
    {p \in [section : BOOLEAN, expand : BOOLEAN, name : BOOLEAN,
            builders : BOOLEAN, exc : {"none", "text", "builders"}] :
        \* without a section nothing else of the page is looked at
        ~p.section => (~p.expand /\ ~p.name /\ ~p.builders /\ p.exc = "none")}

\* Milliseconds after the first Escape at which the overlay hides, if ever.
HideTimes == {100, 500}

\* What the page does while the popup is closed: whether each press of
\* Escape passes, and when the overlay hides.
CloseEnvs ==
    {c \in [escape1 : BOOLEAN,
            hidden_at : {None} \cup {Some(t) : t \in HideTimes},
            escape2 : BOOLEAN] :
        \* what the code never gets to look at is fixed
        /\ ~c.escape1 => (c.hidden_at = None /\ c.escape2)
        /\ Before(c.hidden_at, overlay_timeout) => c.escape2}

\* The text a description element shows: cut short while a "read more"
\* control is there and has not been clicked.
shown_description(p, clicked) ==
    IF p.expand /\ ~clicked THEN "truncated" ELSE "full"

\* extract_project_details_fast, the calls it makes on the page in order:
\* the section is looked up; its text is read; the fields are queried; the
\* builder descriptions are queried. No call clicks anything.
popup_reads(p) ==
    <<Call("find_section", p.section, 0)>>
    \o (IF ~p.section THEN <<>>
        ELSE <<Call("read_text", p.exc # "text", 0)>>
             \o (IF p.exc = "text" THEN <<>>
                 ELSE <<Call("read_fields", p.name, 0),
                        Call("read_builders", p.exc # "builders", 0)>>))

\* extract_project_details_fast, the dict it returns: empty without a
\* section or when the text read raises, else the fields found up to the
\* read that raises.
popup_fields(p) ==
    IF ~p.section \/ p.exc = "text" THEN EmptyDict
    ELSE (IF p.name THEN ("Project Name" :> "popup name") ELSE EmptyDict)
         @@ (IF p.builders /\ p.exc = "none"
             THEN ("Builder Descriptions" :> shown_description(p, FALSE))
             ELSE EmptyDict)

\* The presses and the wait of close_popup_fast, in order.
close_calls(c) ==
    <<Call("escape", c.escape1, 0)>>
    \o (IF ~c.escape1 THEN <<>>
        ELSE IF Before(c.hidden_at, overlay_timeout)
        THEN <<Call("wait_hidden", TRUE, The(c.hidden_at))>>
        ELSE <<Call("wait_hidden", FALSE, overlay_timeout),
               Call("escape", c.escape2, 0)>>)

\* close_popup_fast without its outer handler: a press that raises leaves
\* the function by the exception.
close_popup_fast_unguarded(c) ==
    IF ~c.escape1
       \/ (~Before(c.hidden_at, overlay_timeout) /\ ~c.escape2)
    THEN [raised |-> TRUE, result |-> None]
    ELSE [raised |-> FALSE, result |-> Some("success")]

\* close_popup_fast: "success" on each of its four ways out.
close_popup_fast(c) == [raised |-> FALSE, result |-> Some("success")]

\* A popup has just been opened.
PopupInit ==
    /\ ServiceInit
    /\ BudgetIdle
    /\ LoginIdle
    /\ PoolInit
    /\ CredInit
    /\ popup_pc = "open"
    /\ popup_env \in [page : PopupPages, close : CloseEnvs]
    /\ popup_ops = <<>>
    /\ popup_details = EmptyDict
    /\ popup_result = None

\* extract_project_details_fast(page)
PopupExtract ==
    /\ popup_pc = "open"
    /\ popup_ops' = popup_ops \o popup_reads(popup_env.page)
    /\ popup_details' = popup_fields(popup_env.page)
    /\ popup_pc' = "extracted"
    /\ UNCHANGED <<popup_env, popup_result>>
    /\ UNCHANGED <<serviceVars, budgetVars, loginVars, poolVars, credVars>>

\* close_popup_fast(page)
PopupClose ==
    /\ popup_pc = "extracted"
    /\ popup_ops' = popup_ops \o close_calls(popup_env.close)
    /\ LET r == close_popup_fast(popup_env.close)
       IN /\ popup_pc' = IF r.raised THEN "raised" ELSE "closed"
          /\ popup_result' = r.result
    /\ UNCHANGED <<popup_env, popup_details>>
    /\ UNCHANGED <<serviceVars, budgetVars, loginVars, poolVars, credVars>>

PopupNext == PopupExtract \/ PopupClose

PopupSpec == PopupInit /\ [][PopupNext]_vars

\* ================================================================ claims
InJob == mode # "none"
Finished == pc = "done"
\* The job function is about to return its summary.
Returned == pc = "finally" /\ raised = ""
\* The response the endpoint makes of the job's result as it stands.
Answer == ResponseOf(mode, raised, project_ids, rows_inserted, results)

\* The project id of the candidate whose record is about to be persisted.
CandidateId == Get(project_data, "Project ID")

HasOp(name) == \E j \in DOMAIN ops : ops[j].op = name

\* C1: a project id persisted by an earlier run and requested again is held
\* exactly once by the table after the second run, and the second run does
\* not count it as processed.
C1_Idempotence ==
    (Returned /\ mode = "ids") =>
        \A k \in DOMAIN project_ids :
            Held(store0, Some(project_ids[k])) = 1 =>
                /\ Held(store, Some(project_ids[k])) = 1
                /\ \A j \in DOMAIN results.details :
                      results.details[j].id = project_ids[k] =>
                          results.details[j].msg # "Successfully processed"

\* C2: the record handed to insert_to_supabase carries a project id that is
\* present and non-empty, in listing mode and in id mode.
C2_NoEmptyIdPersisted ==
    pc \in {"row_insert", "id_insert"} =>
        /\ CandidateId # None
        /\ CandidateId # Some(<<>>)

\* C3: detail navigation and popup extraction for a candidate come after an
\* existence query for its id, and never happen for an id the table holds.
C3_DedupeBeforeDetail ==
    /\ pc \in {"id_extract", "id_insert"} =>
          /\ HasOp("exists")
          /\ Held(store, Some(project_ids[i])) = 0
    /\ (pc = "row_insert" /\ HasOp("click_link")) =>
          /\ HasOp("exists")
          /\ Held(store, CandidateId) = 0

\* C4: a listing run of n rows, k of them with ids the table already holds,
\* all extractions and inserts succeeding, reports n - k processed and k
\* skipped duplicates, and issues n - k inserts.
C4_ListingSummary ==
    (Returned /\ mode = "listing" /\ clean) =>
        /\ Answer.data["projects_scraped"] = project_rows - dupRows
        /\ insertCalls = project_rows - dupRows
        /\ dupRows > 0 =>
              /\ "skippedDuplicates" \in DOMAIN Answer.data
              /\ Answer.data["skippedDuplicates"] = dupRows

\* C5: after a failed portal login the job does nothing but close its
\* browser (no further login, enumeration, search, extraction or insert) and
\* the caller gets a 401 or a 500 instead of a summary.
C5_LoginFailureAborts ==
    \A j \in DOMAIN ops :
        (ops[j].op = "login" /\ ~ops[j].ok) =>
            /\ raised = "LoginFailed"
            /\ pc \in {"finally", "done"}
            /\ \A k \in (j + 1)..Len(ops) :
                  ops[k].op \in {"close_context", "close_browser"}
            /\ i = 0
            /\ insertCalls = 0
            /\ Finished =>
                  /\ response.code \in {401, 500}
                  /\ response.status = "error"
                  /\ response.data = EmptyDict

\* C5 witness: a job whose login failed has answered its caller with 401.
C5_Witness ==
    /\ Finished
    /\ \E j \in DOMAIN ops : ops[j].op = "login" /\ ~ops[j].ok
    /\ response.code = 401

\* C6: a job whose first navigation lands outside the login path is
\* reported authenticated and goes on without submitting credentials.
C6_NoLoginOffLoginPath ==
    (Len(ops) >= 1 /\ ops[1].op = "goto" /\ ops[1].ok) =>
        /\ pc \notin {"login1", "verify", "login2"}
        /\ \A j \in DOMAIN ops :
              /\ ops[j].op # "login"
              /\ ops[j].op = "is_logged_in_ultra_fast" => ops[j].ok

\* C6 witness: such a job has passed the login check and is about to take
\* up its candidates.
C6_Witness ==
    /\ ops = <<Op("goto", None, TRUE),
               Op("is_logged_in_ultra_fast", None, TRUE)>>
    /\ pc \in {"wait_rows", "loop"}

\* C7: an id-targeted search that shows no suggestion and no result row
\* matching the id ends as not found: the id is counted as failed with
\* "Not found in search", nothing is extracted or inserted for it, and the
\* job goes on without raising.
C7_NotFoundIsFailedValue ==
    (mode = "ids" /\ Len(ops) >= 1 /\ ops[1].op = "search" /\ ~matched) =>
        /\ ~ops[1].ok
        /\ Len(ops) = 1
        /\ pc \in {"loop", "finally"}
        /\ raised = ""
        /\ results.failed >= 1
        /\ results.details[Len(results.details)].msg = "Not found in search"

\* C8: once the candidate loop has begun, no exception leaves the job
\* function, in listing mode and in id mode.
C8_NoEscapeFromLoop ==
    i >= 1 => raised = ""

\* C9: get_cached_session answers True exactly when a login time is cached
\* and fewer than 1800 seconds have passed since it, whatever it answered
\* before.
C9_SessionTTL ==
    [][GetCachedSession =>
        (lastGet' = "valid" <=>
            (session_cache # None /\ clock - The(session_cache) < 1800))]_vars

\* C9 witness: a session that was reported valid is reported invalid once
\* 1800 seconds have passed since its login.
C9_Witness ==
    /\ everValid
    /\ lastGet = "invalid"
    /\ session_cache # None
    /\ clock - The(session_cache) = 1800

\* C10: a job starting while a session cached by an earlier job of the
\* process is within its TTL does not enter the full credential login.
C10_CachedSessionReused ==
    pc = "login1" =>
        ~(\E t \in prevLogin : clock - t < session_duration)

\* C14: an id-targeted run that came to the end of its candidate loop with
\* at least one failed id answers HTTP 200 with status partial_success.
C14_FailuresArePartialSuccess ==
    (Returned /\ mode = "ids" /\ results.failed >= 1) =>
        /\ Answer.code = 200
        /\ Answer.status = "partial_success"

\* C19: in an id-targeted search, the detail popup that is open when the
\* extraction of requested id X begins belongs to a project whose id
\* contains X.
C19_OpenedPopupMatchesId ==
    (mode = "ids" /\ pc = "id_extract") =>
        IdMatches(project_ids[i], opened)

\* C13: insert_to_supabase does not raise; when the table did not take the
\* row of an id-targeted candidate, that id is counted under failed with
\* "Database insertion failed", processed is unchanged, nothing is raised
\* and the job goes on to the next id (or to its end after the last one).
C13_InsertFailureCounted ==
    [][(pc = "id_insert" /\ Some(project_ids[i]) \in DOMAIN store
            /\ store' = store) =>
        /\ raised' = ""
        /\ results'.failed = results.failed + 1
        /\ results'.processed = results.processed
        /\ results'.details =
            Append(results.details, [id |-> project_ids[i],
                                     msg |-> "Database insertion failed"])
        /\ i' = i + 1
        /\ pc' = IF i = Len(project_ids) THEN "finally" ELSE "loop"]_vars

C13_Witness ==
    /\ mode = "ids"
    /\ pc = "loop"
    /\ i = 2
    /\ HasOp("insert")
    /\ results.processed = 0
    /\ results.failed = 1
    /\ results.details[1].msg = "Database insertion failed"

\* C20: an id-targeted candidate whose detail extraction raised is counted
\* as failed, not as processed; the job is not aborted and goes on.
C20_ExtractionFailureCounted ==
    (mode = "ids" /\ HasOp("close_popup")
        /\ \E j \in DOMAIN ops : ops[j].op = "extract_popup" /\ ~ops[j].ok) =>
        /\ raised = ""
        /\ pc \in {"loop", "finally"}
        /\ results.failed >= 1
        /\ results.details[Len(results.details)].msg # "Successfully processed"

\* C16: the value extracted from a budget string is the maximum of the
\* numbers found in it (its groups of digits, thousands commas removed), and
\* 0 when the string is empty or holds no number.
C16_BudgetIsMaxNumber ==
    budget_pc = "counted" =>
        LET n == Len(budget)
            \* maximal runs of digits and commas that hold a digit
            groups == {g \in (1..n) \X (1..n) :
                        /\ g[1] <= g[2]
                        /\ \A j \in g[1]..g[2] : InGroup(budget[j])
                        /\ \E j \in g[1]..g[2] : IsDigit(budget[j])
                        /\ (g[1] = 1 \/ ~InGroup(budget[g[1] - 1]))
                        /\ (g[2] = n \/ ~InGroup(budget[g[2] + 1]))}
            numbers == {DecimalValue(replace_commas(
                            SubSeq(budget, g[1], g[2]))) : g \in groups}
        IN  budget_value = IF numbers = {} THEN 0 ELSE SetMax(numbers)

\* C17: the budget range of a value is "Not Specified" for 0 and otherwise
\* the one range, closed below and open above, that holds the value.
C17_BudgetRanges ==
    budget_pc = "counted" =>
        /\ (budget_value = 0 <=> range_category = "Not Specified")
        /\ ((0 < budget_value /\ budget_value < 50000)
                <=> range_category = "Under $50k")
        /\ ((50000 <= budget_value /\ budget_value < 100000)
                <=> range_category = "$50k - $100k")
        /\ ((100000 <= budget_value /\ budget_value < 500000)
                <=> range_category = "$100k - $500k")
        /\ ((500000 <= budget_value /\ budget_value < 1000000)
                <=> range_category = "$500k - $1M")
        /\ (1000000 <= budget_value <=> range_category = "Over $1M")

C17_Witness ==
    /\ budget_pc = "counted"
    /\ budget_value = 50000
    /\ range_category = "$50k - $100k"

\* C18: after the credentials are submitted, the first of the three signs
\* to show within the wait decides the login: the URL leaving the login
\* path or the dashboard marker gives success, the inline error gives the
\* rejection, and none of the three within the wait gives a third result,
\* neither success nor the rejection.
C18_FirstSignalDecides ==
    login_pc = "returned" =>
        LET bound == url_timeout + rows_timeout
            shown == {k \in {"url", "marker", "error"} :
                        Before(signals[k], bound)}
            first == {k \in shown :
                        \A o \in shown : The(signals[k]) <= The(signals[o])}
        IN  /\ (first # {} /\ "error" \notin first) => login_result = TRUE
            /\ first = {"error"} => login_result = FALSE
            /\ shown = {} => login_result \notin BOOLEAN

\* C11: at most 3 jobs run at the same time; a request accepted while 3
\* run stays in the pool's queue, and only worker threads run browser
\* operations, never the request handlers' thread.
C11_AtMostThreeJobs ==
    /\ Cardinality(Running) <= 3
    /\ browser_by \subseteq {"worker"}
    /\ \A r \in PoolRequests :
        phase[r] = "queued" <=> \E j \in DOMAIN pool_queue : pool_queue[j] = r

C11_Witness ==
    /\ Cardinality(Running) = 3
    /\ pool_queue # <<>>
    /\ browser_by = {"worker"}

\* C12: every job has a scraper, browser, context and page of its own that
\* no other job reads or writes; the tenders table is what jobs share; a
\* job has at most one browser operation in flight.
C12_JobsShareOnlyTheStore ==
    /\ \A s \in DOMAIN users : Cardinality(users[s]) <= 1
    /\ \A r, q \in PoolRequests :
        (r # q /\ scraper_of[r] # None) => scraper_of[r] # scraper_of[q]
    /\ \A r \in PoolRequests : in_flight[r] <= 1

C12_Witness ==
    /\ \E r, q \in PoolRequests :
        /\ r # q
        /\ phase[r] = "in_op" /\ phase[q] = "in_op"
        /\ users[The(scraper_of[r])] = {r}
        /\ users[The(scraper_of[q])] = {q}
    /\ Cardinality(store_users) >= 2

\* C15: a request's job is in the pool's queue, running or done only if,
\* for that request, the input and URL were valid, the bearer token was
\* verified and the stored credentials were found and decrypted; a request
\* with a failed check has its error status (400 input or URL, 401 token,
\* 404 no stored credentials, 500 unexpected failure) and no job of it is
\* queued or run.
C15_ChecksBeforeJob ==
    \A r \in PoolRequests :
        checks[r] # None =>
            LET e == The(checks[r])
                passed == /\ e.input /\ e.url /\ e.bearer /\ e.user
                          /\ e.credentials = "found"
            IN  /\ (phase[r] \notin {"new", "rejected"} \/ scraper_of[r] # None
                        \/ (\E j \in DOMAIN pool_queue : pool_queue[j] = r))
                    => (passed /\ reject_code[r] = 0)
                /\ ~passed =>
                    /\ phase[r] = "rejected"
                    /\ reject_code[r] =
                        IF ~e.input \/ ~e.url THEN 400
                        ELSE IF ~e.bearer \/ ~e.user THEN 401
                        ELSE IF e.credentials = "none" THEN 404
                        ELSE 500
                    /\ ops_done[r] = 0 /\ in_flight[r] = 0
                    /\ r \notin store_users

C15_Witness ==
    \E r, q \in PoolRequests :
        /\ phase[r] = "rejected" /\ reject_code[r] = 404
        /\ The(checks[r]).credentials = "none"
        /\ phase[q] = "in_op"
        /\ The(checks[q]).credentials = "found"

\* C21: among the operations of one candidate, the insert comes after the
\* popup extraction and before the popup is closed, in listing mode and in
\* id mode.
C21_ExtractInsertClose ==
    \A j, k \in DOMAIN ops :
        /\ (ops[j].op = "extract_popup" /\ ops[k].op = "insert") => j < k
        /\ (ops[j].op = "insert" /\ ops[k].op = "close_popup") => j < k

\* C23: the row the Persister inserts holds a column only for a field that
\* is present in the record: nothing is written for an absent field.
C23_OnlyPresentFieldsWritten ==
    pc \in {"row_insert", "id_insert"} =>
        LET row == supabase_data(project_data, clock)
        IN  /\ \A c \in DOMAIN ColumnKey \cap DOMAIN row :
                ColumnKey[c] \in DOMAIN project_data
            /\ "url" \in DOMAIN row => "source_url" \in DOMAIN project_data
            /\ "number_of_trades" \in DOMAIN row =>
                "Number of Trades" \in DOMAIN project_data
            /\ "has_documents" \in DOMAIN row =>
                "Has Documents" \in DOMAIN project_data

\* C24: a listing job whose wait for the rows timed out, or that collected
\* no row, ends with an exception: it has extracted and inserted nothing
\* and its caller gets an error response.
C24_NoRowsIsFatal ==
    (mode = "listing" /\ HasOp("wait_rows") /\ project_rows = 0) =>
        LET answer == IF pc = "done" THEN response ELSE Answer
        IN  /\ pc \in {"finally", "done"}
            /\ raised # ""
            /\ answer.status = "error"
            /\ answer.code >= 400
            /\ ~HasOp("extract_row") /\ ~HasOp("extract_popup")
            /\ ~HasOp("insert")
            /\ insertCalls = 0 /\ rows_inserted = 0
            /\ store = store0

C24_Witness ==
    /\ mode = "listing"
    /\ pc = "finally"
    /\ project_rows = 0
    /\ Len(ops) >= 1
    /\ ops[Len(ops)] = Op("wait_rows", None, TRUE)
    /\ raised = "NoRows"
    /\ Answer.code = 500

\* C27: when an id-targeted job returns its summary, every requested id has
\* been counted once: processed + failed is the number of requested ids,
\* details holds one entry per requested id in the request's order,
\* processed is the number of inserts the table took, and the request had
\* at least one id.
C27_EveryIdCountedOnce ==
    (Returned /\ mode = "ids") =>
        LET n == Len(project_ids)
            taken == {j \in DOMAIN results.details :
                        results.details[j].msg = "Successfully processed"}
        IN  /\ n >= 1
            /\ results.processed + results.failed = n
            /\ Len(results.details) = n
            /\ \A j \in 1..n : results.details[j].id = project_ids[j]
            /\ results.processed = Cardinality(taken)
            /\ 0 <= results.processed /\ results.processed <= n
            /\ Answer.data["total_requested"] = n
            /\ (\A j \in 1..n : project_ids[j] # <<>>) =>
                results.processed =
                    (Held(store, Some(<<1>>)) - Held(store0, Some(<<1>>)))
                    + (Held(store, Some(<<1, 2>>))
                       - Held(store0, Some(<<1, 2>>)))

C27_Witness ==
    /\ Returned
    /\ mode = "ids"
    /\ Len(project_ids) = 2
    /\ results.processed = 1
    /\ results.failed = 1
    /\ results.details[1].msg = "Not found in search"
    /\ results.details[2].msg = "Successfully processed"

\* C28: in both modes the job's browser is open only while the job runs;
\* when the job has returned or raised, its last two operations were the
\* close of the context and then the close of the browser, whatever the
\* exit path.
C28_BrowserClosedOnEveryExit ==
    /\ browserOpen <=> pc \notin {"idle", "done"}
    /\ pc = "done" =>
        /\ Len(ops) >= 2
        /\ ops[Len(ops) - 1] = Op("close_context", None, TRUE)
        /\ ops[Len(ops)] = Op("close_browser", None, TRUE)

C28_Witness ==
    /\ pc = "done"
    /\ mode = "ids"
    /\ raised = "LoginFailed"
    /\ ~browserOpen
    /\ response.code = 500
    /\ ops[Len(ops)] = Op("close_browser", None, TRUE)

\* C29: in an id-targeted job, when the search for the next id is about to
\* begin (or the loop is over), the popup that the search of the candidate
\* just handled opened has been closed by close_popup_fast, also when its
\* insert failed.
C29_PopupClosedBeforeNextSearch ==
    (mode = "ids" /\ pc \in {"loop", "finally"}) =>
        \A j \in DOMAIN ops :
            ops[j].op = "open_detail" =>
                \E k \in DOMAIN ops :
                    k > j /\ ops[k].op = "close_popup" /\ ops[k].ok

C29_Witness ==
    /\ mode = "ids"
    /\ pc = "loop"
    /\ Len(ops) = 5
    /\ ops[2].op = "open_detail"
    /\ ops[4].op = "insert" /\ ~ops[4].ok
    /\ ops[5].op = "close_popup"

C26_OneCredentialRowPerUser ==
    user_credentials <= 1


\* C25: during popup extraction, when a "read more" control is present in
\* the details section it is clicked before the section's text and the
\* builder descriptions are read, so the descriptions returned are the
\* expanded ones.
C25_ExpandedBeforeRead ==
    (/\ popup_pc \in {"extracted", "closed"}
     /\ popup_env.page.section
     /\ popup_env.page.expand
     /\ "Builder Descriptions" \in DOMAIN popup_details)
    => /\ \E j, k \in DOMAIN popup_ops :
            /\ j < k
            /\ popup_ops[j].op = "click_expand"
            /\ popup_ops[k].op = "read_text"
       /\ popup_details["Builder Descriptions"] = "full"

\* The presses and the wait made so far to close the popup.
closing_calls ==
    SelectSeq(popup_ops, LAMBDA o : o.op \in {"escape", "wait_hidden"})

\* C22: close_popup_fast never leaves by an exception, and once it has
\* returned it has returned "success" after: one Escape; if that passed,
\* one wait of at most overlay_timeout ms for the overlay to hide; if the
\* wait timed out, a second Escape and nothing more.
C22_CloseAlwaysReturns ==
    /\ popup_pc # "raised"
    /\ popup_pc = "closed" =>
        LET c == closing_calls
        IN /\ popup_result = Some("success")
           /\ Len(c) >= 1
           /\ c[1].op = "escape"
           /\ ~c[1].ok => Len(c) = 1
           /\ c[1].ok =>
                /\ Len(c) >= 2
                /\ c[2].op = "wait_hidden"
                /\ c[2].ms <= overlay_timeout
                /\ c[2].ok => Len(c) = 2
                /\ ~c[2].ok => (Len(c) = 3 /\ c[3].op = "escape")

\* The overlay did not hide in time and the second Escape raised; the
\* function has returned "success".
C22_Witness ==
    /\ popup_pc = "closed"
    /\ popup_result = Some("success")
    /\ Len(closing_calls) = 3
    /\ ~closing_calls[2].ok
    /\ ~closing_calls[3].ok

====
